---------------------------- MODULE Spec2Model ----------------------------
(***************************************************************************)
(* Variational (Bayesian) layers of src/model/bayesian_layers.py: Linear,  *)
(* Conv2d, ConvTranspose2d and BatchNorm2d.  One layer instance is the     *)
(* state; every forward call is one action.                                *)
(*                                                                         *)
(* Arithmetic is exact.  Inputs are integers.  Parameters (means, noise,   *)
(* biases) and the outputs of Linear/Conv2d/ConvTranspose2d are integers   *)
(* counting units of 1/Unit, so that a weight of 1/4 is the integer 1 when *)
(* Unit = 4.  The running statistics of BatchNorm2d are rationals <<n, d>> *)
(* in lowest terms, d > 0; <<0, 0>> is NaN.  A tensor is a nested sequence *)
(* of scalars, outermost dimension first.  A library call that raises      *)
(* returns [ok |-> FALSE].                                                 *)
(***************************************************************************)
EXTENDS Integers, Sequences, FiniteSets, TLC

\* ------------------------------------------------------------------------
\* Bounds of the model
\* ------------------------------------------------------------------------
MaxBatch == 4          \* largest leading dimension N of an input batch
MaxSamples == 2        \* largest num_param_samples S passed to forward
MaxCalls == 2          \* forward calls explored on one layer instance
Unit == 4              \* parameters are multiples of 1/Unit

\* ------------------------------------------------------------------------
\* Exact arithmetic
\* ------------------------------------------------------------------------
Abs(n) == IF n < 0 THEN -n ELSE n

RECURSIVE GCD(_, _)
GCD(a, b) == IF b = 0 THEN a ELSE GCD(b, a % b)

NaN == <<0, 0>>
IsNaN(r) == r[2] = 0

\* n/d in lowest terms with a positive denominator; x/0 is NaN (0/0 in torch)
Rat(n, d) ==
    IF d = 0 THEN NaN
    ELSE LET g == GCD(Abs(n), Abs(d))
             s == IF d < 0 THEN -1 ELSE 1
         IN  <<(s * n) \div g, (s * d) \div g>>

R(n) == <<n, 1>>

\* sums over the least common denominator, which keeps the integers small
RAdd(a, b) == IF IsNaN(a) \/ IsNaN(b) THEN NaN
              ELSE LET g == GCD(a[2], b[2])
                   IN  Rat(a[1] * (b[2] \div g) + b[1] * (a[2] \div g),
                           (a[2] \div g) * b[2])
RSub(a, b) == RAdd(a, <<-b[1], b[2]>>)
RMul(a, b) == IF IsNaN(a) \/ IsNaN(b) THEN NaN
              ELSE Rat(a[1] * b[1], a[2] * b[2])

\* a sequence given as a function on 1..n, evaluated to a tuple
Tup(f) == f \o <<>>

\* the sum of the first n elements of a tuple, and of a whole sequence
RECURSIVE SumTo(_, _)
SumTo(s, n) == IF n = 0 THEN 0 ELSE s[n] + SumTo(s, n - 1)
Sum(f) == LET s == Tup(f) IN SumTo(s, Len(s))

\* ------------------------------------------------------------------------
\* Results of library calls
\* ------------------------------------------------------------------------
None == <<>>
Raise == [ok |-> FALSE, val |-> None]
Ok(v) == [ok |-> TRUE, val |-> v]

\* ------------------------------------------------------------------------
\* Tensor primitives of the host library used by the layers
\* ------------------------------------------------------------------------
\* torch.exp(0.5 * logvar) on the log-variances the model constructs with:
\* -inf gives sigma = 0, 0 gives sigma = 1
NegInf == <<-1, 0>>
ExpHalf(logvar) == IF logvar = NegInf THEN 0 ELSE 1

\* (mutation: the mean left out of the sample)
RECURSIVE ReparamNoMean(_, _, _, _)
ReparamNoMean(depth, mean, logvar, e) ==
    IF depth = 0 THEN ExpHalf(logvar) * e
    ELSE Tup([i \in 1..Len(mean) |->
              ReparamNoMean(depth - 1, mean[i], logvar[i], e)])

\* mean + torch.exp(0.5 * logvar) * torch.randn_like(std), elementwise on a
\* tensor of `depth` dimensions; e is the value randn_like drew
RECURSIVE Reparam(_, _, _, _)
Reparam(depth, mean, logvar, e) ==
    IF depth = 0 THEN mean + ExpHalf(logvar) * e
    ELSE Tup([i \in 1..Len(mean) |-> Reparam(depth - 1, mean[i], logvar[i], e)])

\* (mutation: a reshape that pads the last group instead of raising)
ReshapePadded(x, S) ==
    IF Len(x) = 0 THEN Raise
    ELSE LET M == (Len(x) + S - 1) \div S
         IN  Ok([g \in 1..S |-> [j \in 1..M |->
                 x[IF (g - 1) * M + j > Len(x) THEN Len(x) ELSE (g - 1) * M + j]]])

\* x.reshape(num_param_samples, -1, *x.shape[1:]): S contiguous groups of
\* N/S rows; raises unless S divides N
Reshape(x, S) ==
    IF Len(x) = 0 \/ Len(x) % S # 0 THEN Raise
    ELSE LET M == Len(x) \div S
         IN  Ok([g \in 1..S |-> SubSeq(x, (g - 1) * M + 1, g * M)])

\* (mutation: randomness='same', every slice gets the first draw)
RandomnessSame(randn, g) == randn[1]

\* randomness='different': what randn_like returns in slice g of the vmap,
\* each slice having its own draw
Randomness(randn, g) == randn[g]

\* torch.vmap(f, in_dims=0)(x), given the results r[g] of f on every slice g
\* of the leading axis: their stack, or the error one of them raised
Vmap(r) ==
    LET s == Tup(r)
    IN  IF \E g \in 1..Len(s) : ~s[g].ok THEN Raise
        ELSE Ok([g \in 1..Len(s) |-> s[g].val])

\* (mutation: the groups concatenated last to first)
RECURSIVE FlattenReversed(_)
FlattenReversed(out) ==
    IF out = <<>> THEN <<>> ELSE FlattenReversed(Tail(out)) \o Head(out)

\* out.reshape(-1, *out.shape[2:]): the groups concatenated in order
RECURSIVE Flatten(_)
Flatten(out) == IF out = <<>> THEN <<>> ELSE Head(out) \o Flatten(Tail(out))

Bias(bias, o) == IF bias = None THEN 0 ELSE bias[o]

\* F.linear(x, weight, bias): y = x W^T + b; x is [N][in], weight [out][in]
F_linear(x, weight, bias) ==
    IF Len(x[1]) # Len(weight[1]) THEN Raise
    ELSE Ok([n \in 1..Len(x) |-> [o \in 1..Len(weight) |->
            Sum([k \in 1..Len(weight[o]) |-> x[n][k] * weight[o][k]])
            + Bias(bias, o)]])

\* the zero-padded input pixel
Pixel(img, h, w) ==
    IF h \in 1..Len(img) /\ w \in 1..Len(img[1]) THEN img[h][w] ELSE 0

\* F.conv2d(x, weight, bias, stride, padding): x is [N][C][H][W],
\* weight [out][in][k][k]
F_conv2d(x, weight, bias, stride, padding) ==
    LET C == Len(x[1])
        H == Len(x[1][1])
        W == Len(x[1][1][1])
        k == Len(weight[1][1])
        Hout == (H + 2 * padding - k) \div stride + 1
        Wout == (W + 2 * padding - k) \div stride + 1
    IN  IF C # Len(weight[1]) \/ H + 2 * padding < k \/ W + 2 * padding < k
        THEN Raise
        ELSE Ok([n \in 1..Len(x) |-> [o \in 1..Len(weight) |->
                [i \in 1..Hout |-> [j \in 1..Wout |->
                 Sum([c \in 1..C |-> Sum([a \in 1..k |-> Sum([b \in 1..k |->
                        weight[o][c][a][b]
                        * Pixel(x[n][c], (i - 1) * stride + a - padding,
                                         (j - 1) * stride + b - padding)])])])
                 + Bias(bias, o)]]]])

\* the kernel element that carries input pixel (h, w) to output pixel (i, j)
Tap(kern, i, h, j, w, stride, padding) ==
    LET a == i + padding - (h - 1) * stride
        b == j + padding - (w - 1) * stride
    IN  IF a \in 1..Len(kern) /\ b \in 1..Len(kern) THEN kern[a][b] ELSE 0

\* F.conv_transpose2d(x, weight, bias, stride, padding): x is [N][C][H][W],
\* weight [in][out][k][k]
F_conv_transpose2d(x, weight, bias, stride, padding) ==
    LET C == Len(x[1])
        H == Len(x[1][1])
        W == Len(x[1][1][1])
        k == Len(weight[1][1])
        Hout == (H - 1) * stride - 2 * padding + k
        Wout == (W - 1) * stride - 2 * padding + k
    IN  IF C # Len(weight) \/ Hout < 1 \/ Wout < 1
        THEN Raise
        ELSE Ok([n \in 1..Len(x) |-> [o \in 1..Len(weight[1]) |->
                [i \in 1..Hout |-> [j \in 1..Wout |->
                 Sum([c \in 1..C |-> Sum([h \in 1..H |-> Sum([w \in 1..W |->
                        x[n][c][h][w]
                        * Tap(weight[c][o], i, h, j, w, stride, padding)])])])
                 + Bias(bias, o)]]]])

\* ------------------------------------------------------------------------
\* Linear (src lines 8-50)
\* ------------------------------------------------------------------------
\* nn.init.kaiming_uniform_(w, a=sqrt(5)) draws each element uniformly from
\* (-1/sqrt(fan_in), 1/sqrt(fan_in)); the model draws +-1/Unit in a
\* checkerboard (fan_in stays below Unit^2)
Kaiming(idx) == IF idx % 2 = 0 THEN 1 ELSE -1

Linear(in_features, out_features, bias, mle, logvar_init) ==
    [kind |-> "Linear", mle |-> mle,
     in_features |-> in_features, out_features |-> out_features,
     weight_mean |-> [o \in 1..out_features |-> [k \in 1..in_features |->
                        Kaiming(o + k)]],
     weight_logvar |-> [o \in 1..out_features |-> [k \in 1..in_features |->
                        logvar_init]],
     bias_mean |-> IF bias THEN [o \in 1..out_features |-> 0] ELSE None,
     bias_logvar |-> IF bias THEN [o \in 1..out_features |-> logvar_init]
                     ELSE None]

\* the sampled bias of param_sample, None when the layer has no bias
SampleBias(self, e) ==
    IF self.bias_mean = None THEN None
    ELSE Reparam(1, self.bias_mean, self.bias_logvar, e.bias)

Linear_forward(self, x, num_param_samples, randn) ==
    IF self.mle THEN F_linear(x, self.weight_mean, self.bias_mean)
    ELSE
    LET xr == Reshape(x, num_param_samples)
        param_sample(xg, e) ==
            F_linear(xg, Reparam(2, self.weight_mean, self.weight_logvar, e.weight),
                     SampleBias(self, e))
        out == Vmap([g \in 1..Len(xr.val) |->
                     param_sample(xr.val[g], Randomness(randn, g))])
    IN  IF ~xr.ok THEN Raise
        ELSE IF ~out.ok THEN Raise
        ELSE Ok(Flatten(out.val))

\* ------------------------------------------------------------------------
\* Conv2d (src lines 54-98) and ConvTranspose2d (src lines 101-145)
\* ------------------------------------------------------------------------
Conv2d(in_channels, out_channels, kernel_size, stride, padding, bias, mle, logvar_init) ==
    [kind |-> "Conv2d", mle |-> mle,
     in_channels |-> in_channels, out_channels |-> out_channels,
     kernel_size |-> kernel_size, stride |-> stride, padding |-> padding,
     weight_mean |-> [o \in 1..out_channels |-> [c \in 1..in_channels |->
                      [a \in 1..kernel_size |-> [b \in 1..kernel_size |->
                        Kaiming(o + c + a + b)]]]],
     weight_logvar |-> [o \in 1..out_channels |-> [c \in 1..in_channels |->
                      [a \in 1..kernel_size |-> [b \in 1..kernel_size |->
                        logvar_init]]]],
     bias_mean |-> IF bias THEN [o \in 1..out_channels |-> 0] ELSE None,
     bias_logvar |-> IF bias THEN [o \in 1..out_channels |-> logvar_init]
                     ELSE None]

Conv2d_forward(self, x, num_param_samples, randn) ==
    IF self.mle
    THEN F_conv2d(x, self.weight_mean, self.bias_mean, self.stride, self.padding)
    ELSE
    LET xr == Reshape(x, num_param_samples)
        param_sample(xg, e) ==
            F_conv2d(xg, Reparam(4, self.weight_mean, self.weight_logvar, e.weight),
                     SampleBias(self, e), self.stride, self.padding)
        out == Vmap([g \in 1..Len(xr.val) |->
                     param_sample(xr.val[g], Randomness(randn, g))])
    IN  IF ~xr.ok THEN Raise
        ELSE IF ~out.ok THEN Raise
        ELSE Ok(Flatten(out.val))

ConvTranspose2d(in_channels, out_channels, kernel_size, stride, padding, bias, mle, logvar_init) ==
    [kind |-> "ConvTranspose2d", mle |-> mle,
     in_channels |-> in_channels, out_channels |-> out_channels,
     kernel_size |-> kernel_size, stride |-> stride, padding |-> padding,
     weight_mean |-> [c \in 1..in_channels |-> [o \in 1..out_channels |->
                      [a \in 1..kernel_size |-> [b \in 1..kernel_size |->
                        Kaiming(o + c + a + b)]]]],
     weight_logvar |-> [c \in 1..in_channels |-> [o \in 1..out_channels |->
                      [a \in 1..kernel_size |-> [b \in 1..kernel_size |->
                        logvar_init]]]],
     bias_mean |-> IF bias THEN [o \in 1..out_channels |-> 0] ELSE None,
     bias_logvar |-> IF bias THEN [o \in 1..out_channels |-> logvar_init]
                     ELSE None]

ConvTranspose2d_forward(self, x, num_param_samples, randn) ==
    IF self.mle
    THEN F_conv_transpose2d(x, self.weight_mean, self.bias_mean, self.stride,
                            self.padding)
    ELSE
    LET xr == Reshape(x, num_param_samples)
        param_sample(xg, e) ==
            F_conv_transpose2d(xg,
                     Reparam(4, self.weight_mean, self.weight_logvar, e.weight),
                     SampleBias(self, e), self.stride, self.padding)
        out == Vmap([g \in 1..Len(xr.val) |->
                     param_sample(xr.val[g], Randomness(randn, g))])
    IN  IF ~xr.ok THEN Raise
        ELSE IF ~out.ok THEN Raise
        ELSE Ok(Flatten(out.val))

\* ------------------------------------------------------------------------
\* BatchNorm2d (src lines 148-199)
\* ------------------------------------------------------------------------
momentum == Rat(1, 10)
eps == Rat(1, 100000)

BatchNorm2d(num_features, mle, logvar_init) ==
    [kind |-> "BatchNorm2d", mle |-> mle, num_features |-> num_features,
     weight_mean |-> [c \in 1..num_features |-> Unit],
     weight_logvar |-> [c \in 1..num_features |-> logvar_init],
     bias_mean |-> [c \in 1..num_features |-> 0],
     bias_logvar |-> [c \in 1..num_features |-> logvar_init]]

\* the number of elements of x per channel, x being [N][C][H][W]
Count(x) == Len(x) * Len(x[1][1]) * Len(x[1][1][1])

\* the sum over dimensions 0, 2, 3 of channel c of x
SumOver(x, c) ==
    Sum([n \in 1..Len(x) |-> Sum([h \in 1..Len(x[n][c]) |->
         Sum([w \in 1..Len(x[n][c][h]) |-> x[n][c][h][w]])])])

\* the sum over dimensions 0, 2, 3 of (k * v - s)^2, v in channel c of x
SumSqOver(x, c, k, s) ==
    Sum([n \in 1..Len(x) |-> Sum([h \in 1..Len(x[n][c]) |->
         Sum([w \in 1..Len(x[n][c][h]) |->
              (k * x[n][c][h][w] - s) * (k * x[n][c][h][w] - s)])])])

\* x.mean([0, 2, 3])
Mean(x) ==
    Tup([c \in 1..Len(x[1]) |-> Rat(SumOver(x, c), Count(x))])

\* (mutation: unbiased=False, the divisor n instead of n - 1)
VarBiased(x) ==
    LET n == Count(x)
    IN  Tup([c \in 1..Len(x[1]) |->
            Rat(SumSqOver(x, c, n, SumOver(x, c)), n * n * n)])

\* x.var([0, 2, 3], unbiased=True): the squared deviations from the mean
\* s/n over n - 1; NaN (0/0) for a single element per channel
Var(x) ==
    LET n == Count(x)
    IN  Tup([c \in 1..Len(x[1]) |->
            Rat(SumSqOver(x, c, n, SumOver(x, c)), n * n * (n - 1))])

\* element i of a vector broadcast to a longer one
At(v, i) == IF Len(v) = 1 THEN v[1] ELSE v[i]
Broadcastable(m, n) == m = n \/ m = 1 \/ n = 1
Max(m, n) == IF m < n THEN n ELSE m

\* (1 - self.momentum) * running + self.momentum * stat, with the
\* broadcasting of the elementwise + ; raises on incompatible lengths
EMA(running, stat) ==
    IF ~Broadcastable(Len(running), Len(stat)) THEN Raise
    ELSE Ok(Tup([c \in 1..Max(Len(running), Len(stat)) |->
                 RAdd(RMul(RSub(R(1), momentum), At(running, c)),
                      RMul(momentum, At(stat, c)))]))

\* t.reshape(1, 3, 1, 1) of a per-channel vector: raises unless it has
\* exactly 3 elements
Reshape1311(t) == IF Len(t) = 3 THEN Ok(t) ELSE Raise

\* the value b + c / sqrt(r) of one output element, kept as <<b, c, r>>
\* since the square root of a rational is not rational; c = 0 drops r
Term(d, r, w, b) ==
    LET c == RMul(d, R(w))
    IN  IF IsNaN(c) \/ IsNaN(r) THEN <<NaN, NaN, NaN>>
        ELSE IF c = R(0) THEN <<R(b), R(0), R(1)>>
        ELSE <<R(b), c, r>>

\* (x - running_mean) / torch.sqrt(running_var + self.eps) * weight + bias
\* with x [N][C][H][W] against [1][3][1][1] operands: broadcasts a
\* one-channel x to 3 channels, raises on any other channel count but 3
Normalize(x, r_mean, r_var, weight, bias) ==
    IF ~Broadcastable(Len(x[1]), 3) THEN Raise
    ELSE LET radicand == Tup([c \in 1..3 |-> RAdd(r_var[c], eps)])
         IN  Ok([n \in 1..Len(x) |-> [c \in 1..3 |->
                LET xc == At(x[n], c)
                IN  [h \in 1..Len(xc) |-> [w \in 1..Len(xc[h]) |->
                     Term(RSub(R(xc[h][w]), r_mean[c]), radicand[c],
                          weight[c], bias[c])]]]])

\* forward returns the call's result and the running statistics it leaves
Left(res, r_mean, r_var) ==
    [ok |-> res.ok, val |-> res.val, running_mean |-> r_mean, running_var |-> r_var]

\* (mutation: the test of self.training inverted)
UpdateRunningInverted(train, running, stat) ==
    IF train THEN Ok(running) ELSE EMA(running, stat)

\* lines 173-175: the update of one running statistic
UpdateRunning(train, running, stat) ==
    IF train THEN EMA(running, stat) ELSE Ok(running)

\* lines 177-199: the per-channel views, then the point-estimate or the
\* sampled affine map of the standardized input
Standardize(self, r_mean, r_var, x, num_param_samples, randn) ==
    LET views == <<Reshape1311(r_mean), Reshape1311(r_var),
                   Reshape1311(self.weight_mean), Reshape1311(self.weight_logvar),
                   Reshape1311(self.bias_mean), Reshape1311(self.bias_logvar)>>
        xr == Reshape(x, num_param_samples)
        param_sample(xg, e) ==
            Normalize(xg, r_mean, r_var,
                      Reparam(1, self.weight_mean, self.weight_logvar, e.weight),
                      Reparam(1, self.bias_mean, self.bias_logvar, e.bias))
        out == Vmap([g \in 1..Len(xr.val) |->
                     param_sample(xr.val[g], Randomness(randn, g))])
    IN  IF \E i \in 1..Len(views) : ~views[i].ok THEN Raise
        ELSE IF self.mle
        THEN Normalize(x, r_mean, r_var, self.weight_mean, self.bias_mean)
        ELSE IF ~xr.ok THEN Raise
        ELSE IF ~out.ok THEN Raise
        ELSE Ok(Flatten(out.val))

\* (mutation: the update made whatever self.training is)
BatchNorm2d_forward_always(self, train, r_mean, r_var, x, num_param_samples, randn) ==
    LET new_mean == EMA(r_mean, Mean(x))
        new_var == EMA(r_var, Var(x))
    IN  IF ~new_mean.ok \/ ~new_var.ok THEN Left(Raise, r_mean, r_var)
        ELSE Left(Standardize(self, new_mean.val, new_var.val, x,
                              num_param_samples, randn),
                  new_mean.val, new_var.val)

\* (mutation: the input standardized with the statistics read before the
\* update)
BatchNorm2d_forward_stale(self, train, r_mean, r_var, x, num_param_samples, randn) ==
    LET new_mean == UpdateRunning(train, r_mean, Mean(x))
        new_var == UpdateRunning(train, r_var, Var(x))
    IN  IF ~new_mean.ok \/ ~new_var.ok THEN Left(Raise, r_mean, r_var)
        ELSE Left(Standardize(self, r_mean, r_var, x, num_param_samples, randn),
                  new_mean.val, new_var.val)

BatchNorm2d_forward(self, train, r_mean, r_var, x, num_param_samples, randn) ==
    LET new_mean == UpdateRunning(train, r_mean, Mean(x))
        new_var == UpdateRunning(train, r_var, Var(x))
    IN  IF ~new_mean.ok \/ ~new_var.ok THEN Left(Raise, r_mean, r_var)
        ELSE Left(Standardize(self, new_mean.val, new_var.val, x,
                              num_param_samples, randn),
                  new_mean.val, new_var.val)

\* ------------------------------------------------------------------------
\* The layers and inputs explored
\* ------------------------------------------------------------------------
Features == {1, 2}            \* in_features / in_channels, and input widths
OutFeatures == {2}            \* out_features / out_channels
Geometry == {<<1, 1, 0>>, <<2, 2, 1>>}    \* kernel_size, stride, padding
NumFeatures == {1, 2, 3}      \* num_features of BatchNorm2d, input channels
Sizes == {2}                  \* height = width of an input image
BatchNormSizes == {1, 2}
LogVarInits == {NegInf, R(0)}

Layers ==
    {Linear(i, o, b, m, lv) :
        i \in Features, o \in OutFeatures, b \in BOOLEAN, m \in BOOLEAN,
        lv \in LogVarInits}
    \cup {Conv2d(i, o, g[1], g[2], g[3], b, m, lv) :
        i \in Features, o \in OutFeatures, g \in Geometry, b \in BOOLEAN,
        m \in BOOLEAN, lv \in LogVarInits}
    \cup {ConvTranspose2d(i, o, g[1], g[2], g[3], b, m, lv) :
        i \in Features, o \in OutFeatures, g \in Geometry, b \in BOOLEAN,
        m \in BOOLEAN, lv \in LogVarInits}
    \cup {BatchNorm2d(f, m, lv) :
        f \in NumFeatures, m \in BOOLEAN, lv \in LogVarInits}

\* input rows: row number i of a batch of vectors / of images
Vector(i, F) == [k \in 1..F |-> i + k - 1]
Image(i, C, H, W) == [c \in 1..C |-> [h \in 1..H |-> [w \in 1..W |-> i * c + h - w]]]

\* batches of N different rows
VectorInputs ==
    {[r \in 1..N |-> Vector(r, F)] : N \in 1..MaxBatch, F \in Features}
ImageInputs(channels, sizes) ==
    {[r \in 1..N |-> Image(r, C, hw, hw)] :
        N \in 1..MaxBatch, C \in channels, hw \in sizes}

\* the values randn_like draws for one group: every element of the weight
\* noise is e.weight, every element of the bias noise e.bias
Noise == {[weight |-> k, bias |-> -k] : k \in 1..MaxSamples}

\* whether a forward call gets as far as torch.vmap, where the noise is drawn
Samples(layer, train, r_mean, x, S) ==
    /\ ~layer.mle
    /\ Reshape(x, S).ok
    /\ layer.kind = "BatchNorm2d" =>
          LET new_mean == UpdateRunning(train, r_mean, Mean(x))
          IN  new_mean.ok /\ Len(new_mean.val) = 3 /\ layer.num_features = 3

\* one draw per group, the draws of different groups different; nothing is
\* drawn by a call that does not get to torch.vmap
Draws(sampled, S) ==
    IF ~sampled THEN {None}
    ELSE {d \in [1..S -> Noise] : \A g, h \in 1..S : d[g] = d[h] => g = h}

\* layer(x, num_param_samples): the forward of the layer's class, with the
\* running statistics the call leaves
forward(layer, train, r_mean, r_var, x, S, randn) ==
    CASE layer.kind = "Linear" ->
            Left(Linear_forward(layer, x, S, randn), r_mean, r_var)
      [] layer.kind = "Conv2d" ->
            Left(Conv2d_forward(layer, x, S, randn), r_mean, r_var)
      [] layer.kind = "ConvTranspose2d" ->
            Left(ConvTranspose2d_forward(layer, x, S, randn), r_mean, r_var)
      [] layer.kind = "BatchNorm2d" ->
            BatchNorm2d_forward(layer, train, r_mean, r_var, x, S, randn)

\* ------------------------------------------------------------------------
\* State
\* ------------------------------------------------------------------------
VARIABLES
    self,           \* the layer: its mle flag, shape and parameters
    training,       \* nn.Module.training
    running_mean,   \* BatchNorm2d buffers (None for the other layers)
    running_var,
    call,           \* the last forward call: arguments, training flag and
                    \* running statistics before it, result, and whether
                    \* the call before it had the same input (again)
    ncalls          \* forward calls made on the instance

vars == <<self, training, running_mean, running_var, call, ncalls>>

NoCall == [made |-> FALSE, again |-> FALSE,
           x |-> None, num_param_samples |-> 0, randn |-> None,
           training |-> TRUE, running_mean |-> None, running_var |-> None,
           ok |-> FALSE, out |-> None]

Init ==
    /\ self \in Layers
    /\ training = TRUE
    /\ running_mean = IF self.kind = "BatchNorm2d"
                      THEN [c \in 1..self.num_features |-> R(0)] ELSE None
    /\ running_var = IF self.kind = "BatchNorm2d"
                     THEN [c \in 1..self.num_features |-> R(1)] ELSE None
    /\ call = NoCall
    /\ ncalls = 0

Called(x, S, randn, res) ==
    [made |-> TRUE, again |-> call.made /\ call.x = x,
     x |-> x, num_param_samples |-> S, randn |-> randn,
     training |-> training, running_mean |-> running_mean,
     running_var |-> running_var, ok |-> res.ok, out |-> res.val]

\* module.train() / module.eval()
Train ==
    /\ training' = TRUE
    /\ UNCHANGED <<self, running_mean, running_var, call, ncalls>>

Eval ==
    /\ training' = FALSE
    /\ UNCHANGED <<self, running_mean, running_var, call, ncalls>>

LinearForward ==
    /\ self.kind = "Linear"
    /\ ncalls < MaxCalls
    /\ \E x \in VectorInputs, S \in 1..MaxSamples :
        \E randn \in Draws(Samples(self, training, running_mean, x, S), S) :
            call' = Called(x, S, randn, Linear_forward(self, x, S, randn))
    /\ ncalls' = ncalls + 1
    /\ UNCHANGED <<self, training, running_mean, running_var>>

Conv2dForward ==
    /\ self.kind = "Conv2d"
    /\ ncalls < MaxCalls
    /\ \E x \in ImageInputs(Features, Sizes), S \in 1..MaxSamples :
        \E randn \in Draws(Samples(self, training, running_mean, x, S), S) :
            call' = Called(x, S, randn, Conv2d_forward(self, x, S, randn))
    /\ ncalls' = ncalls + 1
    /\ UNCHANGED <<self, training, running_mean, running_var>>

ConvTranspose2dForward ==
    /\ self.kind = "ConvTranspose2d"
    /\ ncalls < MaxCalls
    /\ \E x \in ImageInputs(Features, Sizes), S \in 1..MaxSamples :
        \E randn \in Draws(Samples(self, training, running_mean, x, S), S) :
            call' = Called(x, S, randn, ConvTranspose2d_forward(self, x, S, randn))
    /\ ncalls' = ncalls + 1
    /\ UNCHANGED <<self, training, running_mean, running_var>>

BatchNorm2dForward ==
    /\ self.kind = "BatchNorm2d"
    /\ ncalls < MaxCalls
    /\ \E x \in ImageInputs(NumFeatures, BatchNormSizes), S \in 1..MaxSamples :
        \E randn \in Draws(Samples(self, training, running_mean, x, S), S) :
            LET res == BatchNorm2d_forward(self, training, running_mean,
                                           running_var, x, S, randn)
            IN  /\ call' = Called(x, S, randn, res)
                /\ running_mean' = res.running_mean
                /\ running_var' = res.running_var
    /\ ncalls' = ncalls + 1
    /\ UNCHANGED <<self, training>>

Next ==
    \/ Train
    \/ Eval
    \/ LinearForward
    \/ Conv2dForward
    \/ ConvTranspose2dForward
    \/ BatchNorm2dForward

Spec == Init /\ [][Next]_vars

\* ------------------------------------------------------------------------
\* Properties
\* ------------------------------------------------------------------------
IsBatchNorm == self.kind = "BatchNorm2d"

\* this step is a forward call
Stepped == ncalls' = ncalls + 1

\* the last call's batch size, sample count and group size
N == Len(call.x)
S == call.num_param_samples
GroupOf(i) == (i - 1) \div (N \div S) + 1
GroupRows(g) == ((g - 1) * (N \div S) + 1)..(g * (N \div S))
GroupOut(out, g) == SubSeq(out, (g - 1) * (N \div S) + 1, g * (N \div S))

\* the channel / feature count the layer is configured for
Configured ==
    CASE self.kind = "Linear" -> self.in_features
      [] self.kind = "BatchNorm2d" -> self.num_features
      [] OTHER -> self.in_channels

\* sigma = exp(0.5 * logvar) is zero for every weight and bias element
RECURSIVE AllSigmaZero(_, _)
AllSigmaZero(depth, logvar) ==
    IF depth = 0 THEN ExpHalf(logvar) = 0
    ELSE \A i \in 1..Len(logvar) : AllSigmaZero(depth - 1, logvar[i])
SigmaZero ==
    /\ AllSigmaZero(CASE self.kind = "Linear" -> 2
                      [] self.kind = "BatchNorm2d" -> 1
                      [] OTHER -> 4, self.weight_logvar)
    /\ self.bias_logvar # None => AllSigmaZero(1, self.bias_logvar)

\* C1 as stated: a point-estimate layer called twice in a row with the same
\* input returns the same output, whatever the training flag and the
\* sample counts
C1_SameOutputTwice ==
    [][(Stepped /\ self.mle /\ call'.again)
         => (call'.ok = call.ok /\ call'.out = call.out)]_vars

\* C1 amended: the same, for BatchNorm2d only when the second call is made
\* with training = false
C1_SameOutputTwiceInEval ==
    [][(Stepped /\ self.mle /\ call'.again /\ (IsBatchNorm => ~training))
         => (call'.ok = call.ok /\ call'.out = call.out)]_vars

\* a point-estimate BatchNorm2d in eval mode has answered the same input
\* twice in a row, after a training call moved the running statistics
C1_Witness ==
    /\ IsBatchNorm /\ self.mle
    /\ call.made /\ call.again /\ call.ok /\ ~call.training
    /\ running_mean # [c \in 1..3 |-> R(0)]

\* C2: in stochastic mode a batch whose leading dimension is not a multiple
\* of the sample count makes forward fail
C2_IndivisibleFails ==
    (call.made /\ ~self.mle /\ N % S # 0) => (~call.ok /\ call.out = None)

\* a stochastic Linear layer was given a batch of the right width that the
\* sample count does not divide
C2_Witness ==
    /\ self.kind = "Linear" /\ ~self.mle
    /\ call.made /\ N % S # 0 /\ Len(call.x[1]) = self.in_features
    /\ ~call.ok

\* the output of the layer on row i alone, under the draw of row i's group
\* and the running statistics the call left
RowResult(i) ==
    forward(self, FALSE, running_mean, running_var, <<call.x[i]>>, 1,
            IF self.mle THEN None ELSE <<call.randn[GroupOf(i)]>>)

\* C3: a successful forward returns N rows, row i being the result for input
\* row i under the parameters drawn for row i's group
C3_RowsInOrder ==
    (call.made /\ call.ok)
        => /\ Len(call.out) = N
           /\ \A i \in 1..N : RowResult(i).ok /\ call.out[i] = RowResult(i).val[1]

\* a stochastic Conv2d call with two groups of two rows succeeded
C3_Witness ==
    /\ self.kind = "Conv2d" /\ ~self.mle /\ ~SigmaZero
    /\ call.made /\ call.ok /\ N = 4 /\ S = 2

\* C4: no step taken with training = false changes running_mean or
\* running_var
C4_EvalKeepsRunningStats ==
    [][(IsBatchNorm /\ ~training)
         => (running_mean' = running_mean /\ running_var' = running_var)]_vars

\* an eval-mode call on a batch whose statistics differ from the running
\* ones, which an earlier training call had moved
C4_Witness ==
    /\ IsBatchNorm /\ call.made /\ ~call.training /\ call.ok
    /\ call.running_mean # [c \in 1..3 |-> R(0)]
    /\ Mean(call.x) # call.running_mean
    /\ running_mean = call.running_mean

\* the batch statistics of channel c by the textbook formulas: the mean
\* sum/n and the unbiased variance (n * sumsq - sum^2) / (n * (n - 1))
BatchMean(x) ==
    Tup([c \in 1..Len(x[1]) |-> Rat(SumOver(x, c), Count(x))])
BatchVar(x) ==
    Tup([c \in 1..Len(x[1]) |->
         Rat(Count(x) * SumSqOver(x, c, 1, 0) - SumOver(x, c) * SumOver(x, c),
             Count(x) * (Count(x) - 1))])

\* new = (1 - momentum) * old + momentum * stat in every channel, a
\* one-element side broadcast
EmaStep(old, new, stat) ==
    /\ Broadcastable(Len(old), Len(stat))
    /\ Len(new) = Max(Len(old), Len(stat))
    /\ \A c \in 1..Len(new) :
         new[c] = RAdd(RMul(Rat(9, 10), At(old, c)),
                       RMul(Rat(1, 10), At(stat, c)))

\* C5 as stated: every forward call made with training = true applies one
\* exponential-moving-average step to both running statistics
C5_EveryTrainingCallUpdates ==
    (IsBatchNorm /\ call.made /\ call.training)
        => /\ EmaStep(call.running_mean, running_mean, BatchMean(call.x))
           /\ EmaStep(call.running_var, running_var, BatchVar(call.x))

\* C5 amended: so does every such call whose input channel count is
\* broadcast-compatible with the running statistics (equal, or one of the
\* two is 1); any other call raises in the update and changes nothing
C5_CompatibleTrainingCallUpdates ==
    (IsBatchNorm /\ call.made /\ call.training)
        => IF Broadcastable(Len(call.running_mean), Len(call.x[1]))
           THEN /\ EmaStep(call.running_mean, running_mean, BatchMean(call.x))
                /\ EmaStep(call.running_var, running_var, BatchVar(call.x))
           ELSE /\ ~call.ok
                /\ running_mean = call.running_mean
                /\ running_var = call.running_var

\* a training-mode stochastic call that the sample count does not divide:
\* it failed, and moved the running statistics all the same
C5_Witness ==
    /\ IsBatchNorm /\ ~self.mle /\ self.num_features = 3
    /\ call.made /\ call.training /\ N % S # 0 /\ ~call.ok
    /\ running_mean # call.running_mean /\ running_var # call.running_var

\* C6 as stated: an input whose channel / feature count differs from the
\* configured one makes forward fail
C6_MismatchFails ==
    (call.made /\ Len(call.x[1]) # Configured) => ~call.ok

\* the point-estimate layer with the same parameters
PointEstimate == [self EXCEPT !.mle = TRUE]

\* C7: with sigma = 0 everywhere a successful stochastic call returns what
\* the point-estimate layer returns on the same input from the same running
\* statistics and training flag, and leaves the same running statistics
C7_ZeroSigmaIsPointEstimate ==
    (call.made /\ ~self.mle /\ SigmaZero /\ N % S = 0)
        => LET res == forward(PointEstimate, call.training, call.running_mean,
                              call.running_var, call.x, S, None)
           IN  /\ res.ok = call.ok
               /\ res.val = call.out
               /\ res.running_mean = running_mean
               /\ res.running_var = running_var

\* a stochastic BatchNorm2d with sigma = 0 answered two groups in training
\* mode
C7_Witness ==
    /\ IsBatchNorm /\ ~self.mle /\ SigmaZero
    /\ call.made /\ call.ok /\ call.training /\ S = 2 /\ N = 4

\* C8: a successful BatchNorm2d call standardizes with the running statistics
\* it leaves behind, which are those before the call or one update of them
C8_StandardizeAfterUpdate ==
    (IsBatchNorm /\ call.made /\ call.ok)
        => /\ call.out = Standardize(self, running_mean, running_var, call.x, S,
                                     call.randn).val
           /\ running_mean \in {call.running_mean,
                                EMA(call.running_mean, Mean(call.x)).val}
           /\ running_var \in {call.running_var,
                               EMA(call.running_var, Var(call.x)).val}

\* a successful training-mode call whose output differs from what the
\* statistics before the call would have given
C8_Witness ==
    /\ IsBatchNorm /\ call.made /\ call.ok /\ call.training
    /\ call.out # Standardize(self, call.running_mean, call.running_var, call.x,
                              S, call.randn).val

\* a row unlike every row of the batch x, of the same shape
OtherRow(x) ==
    IF self.kind = "Linear" THEN Vector(Len(x) + 1, Len(x[1]))
    ELSE Image(Len(x) + 1, Len(x[1]), Len(x[1][1]), Len(x[1][1][1]))

\* the last call's arguments with one input row, or the draw of one group,
\* outside group g changed
Elsewhere(g) ==
    {<<[call.x EXCEPT ![i] = OtherRow(call.x)], call.randn>> :
        i \in (1..N) \ GroupRows(g)}
    \cup {<<call.x, [call.randn EXCEPT ![h] = e]>> :
        h \in (1..S) \ {g}, e \in Noise}

\* C9 as stated: the rows of group g do not change when the rest of the
\* last call's input or noise changes, the running statistics being those
\* before the call
C9_GroupsIndependent ==
    (call.made /\ ~self.mle /\ call.ok)
        => \A g \in 1..S : \A alt \in Elsewhere(g) :
            LET res == forward(self, call.training, call.running_mean,
                               call.running_var, alt[1], S, alt[2])
            IN  res.ok /\ GroupOut(res.val, g) = GroupOut(call.out, g)

\* C9 amended: they do not change when the running statistics are those the
\* call standardizes with (after its update, in training mode)
C9_GroupsIndependentGivenStats ==
    (call.made /\ ~self.mle /\ call.ok)
        => \A g \in 1..S : \A alt \in Elsewhere(g) :
            LET res == forward(self, FALSE, running_mean, running_var,
                               alt[1], S, alt[2])
            IN  res.ok /\ GroupOut(res.val, g) = GroupOut(call.out, g)

\* a stochastic BatchNorm2d with sigma = 1 answered two groups of two rows
\* in training mode
C9_Witness ==
    /\ IsBatchNorm /\ ~self.mle /\ ~SigmaZero
    /\ call.made /\ call.ok /\ call.training /\ S = 2 /\ N = 4

\* C10 as stated: a BatchNorm2d call that fails leaves running_mean and
\* running_var as they were before the call
C10_FailedCallNoEffect ==
    (IsBatchNorm /\ call.made /\ ~call.ok)
        => (running_mean = call.running_mean /\ running_var = call.running_var)

=============================================================================
